---- MODULE Spec2Model ----
(***************************************************************************)
(* Model of the ast-grep MCP adapter of src/main.py: the connection        *)
(* manager (AstGrepMCPManager), the tool facade built on it                *)
(* (BaseSimplifiedMCPTool / SimplifiedFunctionDefinitionTool) and the      *)
(* normalisation of the engine output into CodeMatch records.              *)
(*                                                                         *)
(* The program runs on one asyncio event loop: a coroutine runs without    *)
(* interruption from one suspension point to the next.  The suspension     *)
(* points of the code are the two awaits on the engine:                    *)
(*   - MCPTool.from_client(...)   (main.py:52, spawn and discovery)        *)
(*   - ast_grep_tool._run(...)    (main.py:91, one engine invocation)      *)
(* Every action below is the code between two such points.                 *)
(***************************************************************************)
EXTENDS Integers, Sequences, FiniteSets, TLC

\* ------------------------------------------------------------------ bounds
NumTasks == 2       \* coroutines that may be in progress at the same time
NumTools == 2       \* tool instances (each owns one AstGrepMCPManager)
MaxHits  == 2       \* longest engine output (number of hit records)

Tasks     == 1..NumTasks
ToolInsts == 1..NumTools

\* ------------------------------------------------------------ input values
FunctionNames == {"main", "add_samples"}
Languages     == {"python", "rust"}

\* Optional[List[str]]: None is the empty set, a list fs is {fs}.
None       == {}
Some(fs)   == {fs}
TheList(o) == CHOOSE fs \in o : TRUE
FileScopes == {None, Some(<<>>), Some(<<"src/data_utils.py", "merge.py">>)}

\* FunctionDefinitionInput, main.py:170-173
Requests ==
    [function_name : FunctionNames, language : Languages,
     target_files : FileScopes]

\* The requests used where coroutines interleave: every name, language and
\* kind of scope occurs in one of them.
SampleRequests ==
    {[function_name |-> "main", language |-> "python", target_files |-> None],
     [function_name |-> "add_samples", language |-> "python",
      target_files |-> Some(<<"src/data_utils.py", "merge.py">>)],
     [function_name |-> "main", language |-> "rust",
      target_files |-> Some(<<>>)]}

\* What discovery (MCPTool.from_client) can report: the engine's operations.
DiscoveredTools == {<<>>, <<"ast_grep">>, <<"find_code", "ast_grep">>}

\* Hit records of the engine's JSON output.  A record lacking a field is a
\* record whose DOMAIN lacks it.
HitA == [file |-> "a.py",
         range |-> [byteOffset |-> [start |-> 10, end |-> 20]],
         text |-> "def f(): pass"]
HitB == [file |-> "b.py",
         range |-> [byteOffset |-> [start |-> 20, end |-> 10]],
         text |-> "def g(): pass"]
HitNoRange == [file |-> "a.py", text |-> "def f(): pass"]
WellFormedHits == {HitA, HitB}
Hits           == WellFormedHits \cup {HitNoRange}

SeqsUpTo(S, n) == UNION {[1..k -> S] : k \in 0..n}

\* What one engine invocation can produce:
\*   raise   : the tool call raises (engine-level failure, non-zero exit)
\*   died    : the tool call raises because the subprocess is gone
\*   badjson : the call returns text that json.loads rejects
\*   json    : the call returns a JSON list of hit records
Replies ==
    {[kind |-> k, hits |-> <<>>] : k \in {"raise", "died", "badjson"}}
    \cup {[kind |-> "json", hits |-> hs] : hs \in SeqsUpTo(Hits, MaxHits)}

\* The replies used where coroutines interleave: one of each kind, an output
\* without hits, a well-formed output and a malformed one.
SampleReplies ==
    {[kind |-> k, hits |-> <<>>] : k \in {"raise", "died", "badjson"}}
    \cup {[kind |-> "json", hits |-> hs] :
            hs \in {<<>>, <<HitA>>, <<HitA, HitNoRange>>}}

\* ------------------------------------------------------------------- state
VARIABLES
    _connected,        \* BaseSimplifiedMCPTool._connected, per tool instance
    _available_tools,  \* AstGrepMCPManager._available_tools, per instance
    task,              \* the coroutines in progress
    returned           \* what the step just taken returned to its caller

vars == <<_connected, _available_tools, task, returned>>

\* A coroutine: where it is (pc), the call it serves, and how many connect
\* attempts and engine invocations it has started so far.
Idle == [pc |-> "idle", op |-> "none", inst |-> 0, function_name |-> "",
         pattern |-> "", language |-> "", files |-> None, args |-> <<>>,
         connects |-> 0, invocations |-> 0]

NoReturn == [op |-> "none", inst |-> 0, pattern |-> "", reply |-> "none",
             hits |-> <<>>, raised |-> "none", value |-> <<>>, flag |-> FALSE,
             connects |-> 0, invocations |-> 0]

\* ------------------------------------------------------------ pure helpers

\* A translation that ignores the request and yields the assignment template.
TranslateAssignment(function_name) == "$NAME = $VAL"

\* SimplifiedFunctionDefinitionTool._run, main.py:193
Translate(function_name) == "def " \o function_name \o "(...): ..."

\* `if files:` (main.py:83): None and the empty list are both falsy.
Truthy(files) == files # None /\ TheList(files) # <<>>

\* execute_pattern, main.py:77-86
BuildArgs(pattern, language, files) ==
    <<"run", "-l", language, "--pattern", "$NAME = $VAL", "--json">>
    \o (IF Truthy(files) THEN TheList(files) ELSE <<".">>)

\* The four subscripts of main.py:103-106 succeed on res.
HitHasShape(res) ==
    /\ {"file", "range", "text"} \subseteq DOMAIN res
    /\ "byteOffset" \in DOMAIN res.range
    /\ {"start", "end"} \subseteq DOMAIN res.range.byteOffset

\* CodeMatch with the pattern sent to the engine in place of the one given.
CodeMatchSentPattern(res, pattern) ==
    [file_path    |-> res.file,
     byte_start   |-> res.range.byteOffset.start,
     byte_end     |-> res.range.byteOffset.end,
     code_snippet |-> res.text,
     pattern      |-> "$NAME = $VAL"]

\* CodeMatch(...) of main.py:102-108
CodeMatch(res, pattern) ==
    [file_path    |-> res.file,
     byte_start   |-> res.range.byteOffset.start,
     byte_end     |-> res.range.byteOffset.end,
     code_snippet |-> res.text,
     pattern      |-> pattern]

\* The loop of main.py:100-109: either every record converts, or the first
\* record that does not raises (ok = FALSE) and the list built so far is lost.
RECURSIVE BuildMatches(_, _, _)
BuildMatches(result, pattern, matches) ==
    IF result = <<>> THEN [ok |-> TRUE, matches |-> matches]
    ELSE IF ~HitHasShape(Head(result)) THEN [ok |-> FALSE, matches |-> matches]
    ELSE BuildMatches(Tail(result), pattern,
                      Append(matches, CodeMatch(Head(result), pattern)))

\* The handler of main.py:111-115: what execute_pattern does with an
\* exception raised anywhere in its try block.
OnException(pattern) == [raised |-> "none", value |-> <<>>]

\* ExecuteOutcome whose handler returns the matches built before the
\* exception (`return matches` in the except clause).
ExecuteOutcomePartial(reply, pattern) ==
    IF reply.kind # "json" THEN OnException(pattern)
    ELSE [raised |-> "none",
          value |-> BuildMatches(reply.hits, pattern, <<>>).matches]

\* main.py:91-115: the outcome of execute_pattern once the engine replied.
ExecuteOutcome(reply, pattern) ==
    IF reply.kind # "json" THEN OnException(pattern)
    ELSE LET b == BuildMatches(reply.hits, pattern, <<>>)
         IN  IF b.ok THEN [raised |-> "none", value |-> b.matches]
             ELSE OnException(pattern)

\* The guard of main.py:71-73.
NoToolsOutcome == [raised |-> "none", value |-> <<>>]

\* ------------------------------------------------------------ the actions

\* The call c begins: a coroutine that has not yet reached an await.
NewCall(op, i, function_name, pattern, language, files) ==
    [Idle EXCEPT !.op = op, !.inst = i, !.function_name = function_name,
                 !.pattern = pattern, !.language = language, !.files = files]

\* What the call c hands back to its caller.
Ret(c, reply, hits, out) ==
    [op |-> c.op, inst |-> c.inst, pattern |-> c.pattern, reply |-> reply,
     hits |-> hits, raised |-> out.raised, value |-> out.value, flag |-> FALSE,
     connects |-> c.connects, invocations |-> c.invocations]

\* execute_pattern from its entry to its await (main.py:71-95), for a manager
\* whose _available_tools is `tools`: without tools it returns [] at once,
\* otherwise it builds the arguments and suspends on the engine.
EnterExecute(t, c, tools) ==
    IF tools = <<>>
    THEN /\ task' = [task EXCEPT ![t] = Idle]
         /\ returned' = Ret(c, "no_tools", <<>>, NoToolsOutcome)
    ELSE /\ task' = [task EXCEPT ![t] =
                        [c EXCEPT !.pc = "invoking",
                                  !.args = BuildArgs(c.pattern, c.language,
                                                     c.files),
                                  !.invocations = @ + 1]]
         /\ returned' = NoReturn

\* _ensure_connection, main.py:138: the facade connects when its flag is off.
NeedsConnect(i) == ~_connected[i]

\* SimplifiedFunctionDefinitionTool._run (main.py:186-200) through
\* _execute_template_pattern and _ensure_connection (main.py:136-164), up to
\* the first await that suspends.
RunStart(t, i, function_name, language, target_files) ==
    /\ task[t].pc = "idle"
    /\ LET pattern == Translate(function_name)
           c == NewCall("_run", i, function_name, pattern, language,
                        target_files)
       IN  IF NeedsConnect(i)
           THEN /\ task' = [task EXCEPT ![t] =
                               [c EXCEPT !.pc = "connecting",
                                         !.connects = @ + 1]]
                /\ returned' = NoReturn
           ELSE EnterExecute(t, c, _available_tools[i])
    /\ UNCHANGED <<_connected, _available_tools>>

\* AstGrepMCPManager.connect called on the manager itself (main.py:38-52).
ConnectStart(t, i) ==
    /\ task[t].pc = "idle"
    /\ task' = [task EXCEPT ![t] =
                   [Idle EXCEPT !.pc = "connecting", !.op = "connect",
                                !.inst = i, !.connects = @ + 1]]
    /\ returned' = NoReturn
    /\ UNCHANGED <<_connected, _available_tools>>

\* AstGrepMCPManager.execute_pattern called on the manager itself.
ExecuteStart(t, i, pattern, language, files) ==
    /\ task[t].pc = "idle"
    /\ EnterExecute(t, NewCall("execute_pattern", i, "", pattern, language,
                               files),
                    _available_tools[i])
    /\ UNCHANGED <<_connected, _available_tools>>

\* What the await of main.py:52 can end in: an exception (spawn or discovery
\* failed) or the list of discovered operations.
ConnectOutcomes ==
    {[raises |-> TRUE, tools |-> <<>>]}
    \cup {[raises |-> FALSE, tools |-> ts] : ts \in DiscoveredTools}

\* connect's result (main.py:52-61): True unless from_client raised.
ConnectResult(o) == ~o.raises

\* ConnectReturn with an automatic retry: when from_client raises, connect
\* is started again instead of returning False.
ConnectReturnRetries(t, o) ==
    /\ task[t].pc = "connecting"
    /\ LET i   == task[t].inst
           new == IF o.raises THEN _available_tools[i] ELSE o.tools
       IN  /\ _available_tools' = [_available_tools EXCEPT ![i] = new]
           /\ IF o.raises
              THEN /\ task' = [task EXCEPT ![t].connects = @ + 1]
                   /\ returned' = NoReturn
                   /\ UNCHANGED _connected
              ELSE IF task[t].op = "connect"
              THEN /\ task' = [task EXCEPT ![t] = Idle]
                   /\ returned' = [NoReturn EXCEPT !.op = "connect",
                                       !.inst = i, !.flag = TRUE,
                                       !.connects = task[t].connects]
                   /\ UNCHANGED _connected
              ELSE /\ _connected' = [_connected EXCEPT ![i] = TRUE]
                   /\ EnterExecute(t, task[t], new)

\* ConnectReturn for a manager whose _available_tools is one list shared by
\* every instance (a class attribute instead of the one set in __init__).
ConnectReturnSharedTools(t, o) ==
    /\ task[t].pc = "connecting"
    /\ LET i   == task[t].inst
           ok  == ConnectResult(o)
           new == IF o.raises THEN _available_tools[i] ELSE o.tools
       IN  /\ _available_tools' = [j \in ToolInsts |-> new]
           /\ IF task[t].op = "connect"
              THEN /\ task' = [task EXCEPT ![t] = Idle]
                   /\ returned' = [NoReturn EXCEPT !.op = "connect",
                                       !.inst = i, !.flag = ok,
                                       !.connects = task[t].connects]
                   /\ UNCHANGED _connected
              ELSE /\ _connected' = [_connected EXCEPT ![i] = ok]
                   /\ IF ~ok
                      THEN /\ task' = [task EXCEPT ![t] = Idle]
                           /\ returned' = Ret(task[t], "connect_failed", <<>>,
                                              [raised |-> "none",
                                               value |-> <<>>])
                      ELSE EnterExecute(t, task[t], new)

\* The await of main.py:52 ends; connect returns (main.py:52-61); a facade
\* call stores the result in _connected (main.py:139) and either gives up
\* (main.py:155-157) or goes on to execute_pattern (main.py:160-164).
ConnectReturn(t, o) ==
    /\ task[t].pc = "connecting"
    /\ LET i   == task[t].inst
           ok  == ConnectResult(o)
           new == IF o.raises THEN _available_tools[i] ELSE o.tools
       IN  /\ _available_tools' = [_available_tools EXCEPT ![i] = new]
           /\ IF task[t].op = "connect"
              THEN /\ task' = [task EXCEPT ![t] = Idle]
                   /\ returned' = [NoReturn EXCEPT !.op = "connect",
                                       !.inst = i, !.flag = ok,
                                       !.connects = task[t].connects]
                   /\ UNCHANGED _connected
              ELSE /\ _connected' = [_connected EXCEPT ![i] = ok]
                   /\ IF ~ok
                      THEN /\ task' = [task EXCEPT ![t] = Idle]
                           /\ returned' = Ret(task[t], "connect_failed", <<>>,
                                              [raised |-> "none",
                                               value |-> <<>>])
                      ELSE EnterExecute(t, task[t], new)

\* InvokeReturn that treats every exception as a lost connection.
InvokeReturnDropsConnection(t, reply) ==
    /\ task[t].pc = "invoking"
    /\ task' = [task EXCEPT ![t] = Idle]
    /\ returned' = Ret(task[t], reply.kind, reply.hits,
                       ExecuteOutcome(reply, task[t].pattern))
    /\ IF reply.kind = "json" /\ BuildMatches(reply.hits, "", <<>>).ok
       THEN UNCHANGED <<_connected, _available_tools>>
       ELSE /\ _connected' = [_connected EXCEPT ![task[t].inst] = FALSE]
            /\ UNCHANGED _available_tools

\* InvokeReturn with the fallback of main.py:114 switched on: after an
\* exception the search is run a second time.
InvokeReturnFallback(t, reply) ==
    /\ task[t].pc = "invoking"
    /\ IF reply.kind = "json" /\ BuildMatches(reply.hits, "", <<>>).ok
       THEN /\ task' = [task EXCEPT ![t] = Idle]
            /\ returned' = Ret(task[t], reply.kind, reply.hits,
                               ExecuteOutcome(reply, task[t].pattern))
       ELSE /\ task' = [task EXCEPT ![t].invocations = @ + 1]
            /\ returned' = NoReturn
    /\ UNCHANGED <<_connected, _available_tools>>

\* The await of main.py:91 ends with the engine's reply; execute_pattern
\* returns (main.py:97-115) and the facade passes the list on (main.py:167).
InvokeReturn(t, reply) ==
    /\ task[t].pc = "invoking"
    /\ task' = [task EXCEPT ![t] = Idle]
    /\ returned' = Ret(task[t], reply.kind, reply.hits,
                       ExecuteOutcome(reply, task[t].pattern))
    /\ UNCHANGED <<_connected, _available_tools>>

\* close() called on the manager.  AstGrepMCPManager (main.py:29-118)
\* defines __init__, connect, execute_pattern and _parse_result only, and has
\* no base class: the call raises AttributeError and touches nothing; the
\* engine subprocess, if any, keeps running.
CloseCall(t, i) ==
    /\ task[t].pc = "idle"
    /\ returned' = [NoReturn EXCEPT !.op = "close", !.inst = i,
                                    !.raised = "AttributeError"]
    /\ UNCHANGED <<_connected, _available_tools, task>>

Init ==
    /\ _connected = [i \in ToolInsts |-> FALSE]
    /\ _available_tools = [i \in ToolInsts |-> <<>>]
    /\ task = [t \in Tasks |-> Idle]
    /\ returned = NoReturn

\* The steps of the coroutines of T working on the tool instances of I, with
\* requests drawn from Q and engine replies drawn from R.
NextOn(T, I, Q, R) ==
    \E t \in T :
        \/ \E i \in I, q \in Q :
              RunStart(t, i, q.function_name, q.language, q.target_files)
        \/ \E i \in I : ConnectStart(t, i)
        \/ \E i \in I, q \in Q :
              ExecuteStart(t, i, Translate(q.function_name), q.language,
                           q.target_files)
        \/ \E o \in ConnectOutcomes : ConnectReturn(t, o)
        \/ \E r \in R : InvokeReturn(t, r)
        \/ \E i \in I : CloseCall(t, i)

\* Concurrent coroutines sharing one tool instance.
Next == NextOn(Tasks, {1}, SampleRequests, SampleReplies)

Spec == Init /\ [][Next]_vars

\* One coroutine at a time on one tool instance, over every request and
\* every engine output up to MaxHits records.
NextExecute == NextOn({1}, {1}, Requests, Replies)

SpecExecute == Init /\ [][NextExecute]_vars

\* The request and the replies used where several tool instances are at
\* work: the call of main() and one failing and one successful reply.
ToolsRequests ==
    {[function_name |-> "main", language |-> "python",
      target_files |-> Some(<<"merge.py">>)]}

ToolsReplies ==
    {[kind |-> "raise", hits |-> <<>>], [kind |-> "json", hits |-> <<HitA>>]}

\* Two concurrent coroutines over every tool instance.
NextTools == NextOn({1, 2}, ToolInsts, ToolsRequests, ToolsReplies)

SpecTools == Init /\ [][NextTools]_vars

TypeOK ==
    /\ _connected \in [ToolInsts -> BOOLEAN]
    /\ \A i \in ToolInsts : _available_tools[i] \in DiscoveredTools
    /\ \A t \in Tasks : task[t].pc \in {"idle", "connecting", "invoking"}

\* --------------------------------------------------- connection vocabulary

\* The manager has discovered at least one engine operation.
Ready(i) == _available_tools[i] # <<>>

ConnectingTasks(i) ==
    {t \in Tasks : task[t].pc = "connecting" /\ task[t].inst = i}

InvokingTasks(i) ==
    {t \in Tasks : task[t].pc = "invoking" /\ task[t].inst = i}

\* ConnectionState of one tool instance.
ConnState(i) ==
    IF ConnectingTasks(i) # {} THEN "Connecting"
    ELSE IF Ready(i) THEN "Ready"
    ELSE "Disconnected"

\* The step just taken returned from execute (directly or through the facade).
ExecuteReturned == returned.op \in {"_run", "execute_pattern"}

\* The engine was invoked by the call that just returned.
EngineInvoked == returned.reply \in {"raise", "died", "badjson", "json"}

WellFormedOutput(hits) == \A k \in 1..Len(hits) : hits[k] \in WellFormedHits

\* The invocation failed, or its output is not a list of well-formed records.
EngineFailed ==
    \/ returned.reply \in {"raise", "died", "badjson"}
    \/ returned.reply = "json" /\ ~WellFormedOutput(returned.hits)

\* ------------------------------------------------------------------ claims

\* C1: when the engine invocation fails or its output does not have the
\* hit-record shape, execute raises ExecutionError; it returns the empty
\* sequence only when the engine reported zero hits.
C1_FailureRaisesExecutionError ==
    (ExecuteReturned /\ EngineInvoked) =>
        /\ EngineFailed => returned.raised = "ExecutionError"
        /\ (returned.raised = "none" /\ returned.value = <<>>) =>
               (returned.reply = "json" /\ returned.hits = <<>>)

\* C2: the value after `--pattern` in the arguments sent to the engine is the
\* pattern string passed to execute.
C2_PatternArgIsGivenPattern ==
    \A t \in Tasks :
        task[t].pc = "invoking" =>
            /\ Len(task[t].args) >= 5
            /\ task[t].args[4] = "--pattern"
            /\ task[t].args[5] = task[t].pattern

\* C3: an execute that finds the connection not Ready returns without
\* invoking the engine and raises NotConnected.
C3_NotReadyRaisesNotConnected ==
    (ExecuteReturned /\ returned.reply = "no_tools") =>
        returned.raised = "NotConnected"

\* C4: at most one connect attempt is in flight per connection instance.
C4_SingleConnectInFlight ==
    \A i \in ToolInsts : Cardinality(ConnectingTasks(i)) <= 1

\* C5: at most one engine invocation is outstanding per connection instance.
C5_SingleInvocationInFlight ==
    \A i \in ToolInsts : Cardinality(InvokingTasks(i)) <= 1

\* C6: connect succeeds only when at least one engine operation was
\* discovered, so a facade that considers itself connected has a non-empty
\* set of discovered operations.
C6_ConnectedImpliesTools ==
    /\ \A i \in ToolInsts : _connected[i] => Ready(i)
    /\ (returned.op = "connect" /\ returned.flag) => Ready(returned.inst)

\* C7: from Ready the connection never goes to Connecting (connect on a Ready
\* connection spawns nothing), and a connect that ends while the connection
\* is Ready leaves the discovered operations as they were.
C7_NoReconnectInPlace ==
    [][\A i \in ToolInsts :
          ConnState(i) = "Ready" =>
              /\ ConnState(i)' # "Connecting"
              /\ _available_tools'[i] = _available_tools[i]]_vars

\* C8: for a well-formed engine output of n hit records execute returns n
\* match records in the engine's order, the k-th built field by field from
\* the k-th hit and carrying the pattern given to execute.
C8_MatchesMirrorHits ==
    (ExecuteReturned /\ returned.reply = "json"
        /\ WellFormedOutput(returned.hits)) =>
        /\ returned.raised = "none"
        /\ Len(returned.value) = Len(returned.hits)
        /\ \A k \in 1..Len(returned.hits) :
              returned.value[k] =
                  [file_path    |-> returned.hits[k].file,
                   byte_start   |-> returned.hits[k].range.byteOffset.start,
                   byte_end     |-> returned.hits[k].range.byteOffset.end,
                   code_snippet |-> returned.hits[k].text,
                   pattern      |-> returned.pattern]

\* C8 witness: a well-formed output of two different hits was normalised.
C8_Witness ==
    /\ ExecuteReturned /\ returned.reply = "json"
    /\ returned.hits = <<HitB, HitA>>
    /\ Len(returned.value) = 2
    /\ returned.pattern = Translate("add_samples")

\* C9: the arguments are run, -l, <language>, --pattern, <value>, --json,
\* then the scope paths in the caller's order whenever a scope is given
\* (even an empty one), and the single `.` only when the scope is absent.
C9_ArgsFollowScope ==
    \A t \in Tasks :
        task[t].pc = "invoking" =>
            /\ Len(task[t].args) >= 6
            /\ SubSeq(task[t].args, 1, 4) =
                   <<"run", "-l", task[t].language, "--pattern">>
            /\ task[t].args[6] = "--json"
            /\ SubSeq(task[t].args, 7, Len(task[t].args)) =
                   (IF task[t].files # None THEN TheList(task[t].files)
                    ELSE <<".">>)

\* An execution error that is not the death of the subprocess.
ExecErrorNotDeath(r) ==
    /\ r.op \in {"_run", "execute_pattern"}
    /\ \/ r.reply \in {"raise", "badjson"}
       \/ r.reply = "json" /\ ~WellFormedOutput(r.hits)

\* C10: an execution error whose cause is not the death of the subprocess
\* changes neither the connected flag nor the discovered operations, the
\* connection is still Ready, and the execute that follows it on the same
\* connection invokes the engine without connecting again.
C10_ErrorKeepsConnection ==
    [][/\ \A t \in Tasks :
            (task[t].pc = "invoking" /\ task'[t].pc = "idle"
                /\ ExecErrorNotDeath(returned')) =>
                /\ _connected' = _connected
                /\ _available_tools' = _available_tools
                /\ _available_tools'[task[t].inst] # <<>>
       /\ \A t \in Tasks :
            (ExecErrorNotDeath(returned) /\ task[t].pc = "idle"
                /\ task'[t].op = returned.op
                /\ task'[t].inst = returned.inst) =>
                task'[t].pc = "invoking"]_vars

\* C10 witness: a facade call just ended in an execution error on a
\* connection that is connected and Ready.
C10_Witness ==
    /\ ExecErrorNotDeath(returned) /\ returned.op = "_run"
    /\ returned.hits = <<HitA, HitNoRange>>
    /\ _connected[returned.inst] /\ Ready(returned.inst)

\* C11: when an execute fails because the engine subprocess has died, the
\* connection is Disconnected when the error is returned: the facade's flag
\* is off and no discovered operation is left, so the next facade call
\* connects anew.
C11_DeathDisconnects ==
    (ExecuteReturned /\ returned.reply = "died") =>
        /\ ~_connected[returned.inst]
        /\ ~Ready(returned.inst)

\* C12: close ends in Disconnected from every connection state: after it the
\* facade's flag is off and no discovered operation is left.
C12_CloseDisconnects ==
    returned.op = "close" =>
        /\ ~_connected[returned.inst]
        /\ ~Ready(returned.inst)

\* C13: the pattern of a function-definition request is the
\* function-definition template with the function name inserted as given: it
\* depends on nothing but the request, so equal requests give equal patterns
\* whatever the connection is doing, and producing it changes neither the
\* connected flag nor the discovered operations.
C13_TranslationIsPure ==
    [][\A t \in Tasks :
          /\ task'[t].op = "_run" =>
                 task'[t].pattern =
                     "def " \o task'[t].function_name \o "(...): ..."
          /\ (task[t].pc = "idle" /\ task'[t].op = "_run") =>
                 /\ _connected' = _connected
                 /\ _available_tools' = _available_tools]_vars

\* C13 witness: two facade calls for the same function name, one still
\* connecting and one already invoking the engine, hold the same pattern.
C13_Witness ==
    \E t, u \in Tasks :
        /\ task[t].op = "_run" /\ task[t].pc = "connecting"
        /\ task[u].op = "_run" /\ task[u].pc = "invoking"
        /\ task[t].function_name = "main" /\ task[u].function_name = "main"
        /\ task[t].pattern = task[u].pattern

\* C14: one facade invocation starts at most one connect attempt and at most
\* one engine invocation, whatever fails; the same holds of what it reports
\* when it returns.
C14_NoRetry ==
    /\ \A t \in Tasks :
          task[t].op = "_run" =>
              task[t].connects <= 1 /\ task[t].invocations <= 1
    /\ returned.op = "_run" =>
          returned.connects <= 1 /\ returned.invocations <= 1

\* C14 witness: a facade call that connected, invoked the engine once and
\* got an exception has returned.
C14_Witness ==
    /\ returned.op = "_run" /\ returned.reply = "raise"
    /\ returned.connects = 1 /\ returned.invocations = 1
    /\ \A t \in Tasks : task[t].pc = "idle"

\* C15: when a hit record of the engine output is malformed, none of the
\* match records built from the records before it is returned.
C15_NoTruncatedPrefix ==
    (ExecuteReturned /\ returned.reply = "json"
        /\ ~WellFormedOutput(returned.hits)) =>
        returned.value = <<>>

\* C15 witness: an output whose second record is malformed was returned on.
C15_Witness ==
    /\ ExecuteReturned /\ returned.reply = "json"
    /\ returned.hits = <<HitA, HitNoRange>>
    /\ returned.value = <<>>

\* C16: a connect attempt is never repeated in place and is started only by
\* a new call; a failed connect of a facade call leaves the flag off and the
\* discovered operations as they were, starts no other attempt, and ends the
\* call; when the attempt of a facade call discovers operations, the flag is
\* set, the connection is Ready and that same call goes on to invoke the
\* engine.
C16_ReconnectOnlyOnRequest ==
    [][\A t \in Tasks :
          LET i == task[t].inst
              left == task[t].pc = "connecting" /\ task'[t] # task[t]
          IN  /\ left => task'[t].pc # "connecting"
              /\ (task'[t].pc = "connecting" /\ task[t].pc # "connecting") =>
                     (task[t].pc = "idle" /\ task'[t].connects = 1)
              /\ (left /\ returned'.reply = "connect_failed") =>
                     /\ task'[t].pc = "idle"
                     /\ ~_connected'[i]
                     /\ _available_tools'[i] = _available_tools[i]
                     /\ \A u \in Tasks : task'[u].pc = "connecting" =>
                                             task[u].pc = "connecting"
              /\ (left /\ task[t].op = "_run"
                       /\ returned'.reply # "connect_failed"
                       /\ _available_tools'[i] # <<>>) =>
                     /\ _connected'[i]
                     /\ task'[t].pc = "invoking"
                     /\ task'[t].connects = 1]_vars

\* C16 witness: a facade call has just given up on a failed connect; the
\* connection is Disconnected and nothing is in progress.
C16_Witness ==
    /\ returned.op = "_run" /\ returned.reply = "connect_failed"
    /\ ~_connected[returned.inst] /\ ~Ready(returned.inst)
    /\ \A t \in Tasks : task[t].pc = "idle"

\* C17: every match record returned by execute has
\* 0 <= byte_start <= byte_end.
C17_OffsetsOrdered ==
    ExecuteReturned =>
        \A k \in 1..Len(returned.value) :
            /\ 0 <= returned.value[k].byte_start
            /\ returned.value[k].byte_start <= returned.value[k].byte_end

\* The tool instance the step of coroutine t works on.
StepInst(t) == IF task[t].pc = "idle" THEN task'[t].inst ELSE task[t].inst

\* C18: a step of a connect or an execute on one tool instance leaves the
\* connected flag and the discovered operations of every other instance
\* unchanged, and the flag and operations of an instance change only in a
\* step of a coroutine working on that instance.
C18_InstancesIndependent ==
    [][/\ \A t \in Tasks, j \in ToolInsts :
             (task'[t] # task[t] /\ j # StepInst(t)) =>
                 /\ _connected'[j] = _connected[j]
                 /\ _available_tools'[j] = _available_tools[j]
       /\ \A j \in ToolInsts :
             (_connected'[j] # _connected[j]
                 \/ _available_tools'[j] # _available_tools[j]) =>
                 \E t \in Tasks : task'[t] # task[t] /\ StepInst(t) = j]_vars

\* C18 witness: one instance is connected and invoking its engine while
\* another, still disconnected, is connecting.
C18_Witness ==
    /\ _connected[1] /\ Ready(1) /\ ~_connected[2] /\ ~Ready(2)
    /\ \E t, u \in Tasks :
          /\ task[t].inst = 1 /\ task[t].pc = "invoking"
          /\ task[u].inst = 2 /\ task[u].pc = "connecting"

====
